---- MODULE Spec2Model ----
(***************************************************************************)
(* Model of the birthday/reminder bridge (src/index.js): the spreadsheet   *)
(* reader, the date policy, the /preview and /send_pending handlers and    *)
(* the WhatsApp session state they depend on.                              *)
(*                                                                         *)
(* Text is kept as text: cells, headers and environment values are TLA+    *)
(* strings and trim / toLowerCase / split / parseInt are computed on them. *)
(* Calendar dates are day ordinals (days since 1970-01-01) computed from    *)
(* (year, month, day) the way the JavaScript Date constructor does,        *)
(* overflow included.                                                      *)
(***************************************************************************)
EXTENDS Integers, Sequences, FiniteSets, TLC

(***************************************************************************)
(* Bounds of the model                                                     *)
(***************************************************************************)
\* longest data area (rows below the header) of the sheets Init draws
MaxRows == 2
\* number of /send_pending invocations in one behaviour
MaxPasses == 2
\* number of /preview invocations in one behaviour
MaxPreviews == 1
\* number of sockets startWA makes in one behaviour
MaxSockets == 2

(***************************************************************************)
(* JavaScript string primitives                                            *)
(***************************************************************************)
CharAt(s, i) == SubSeq(s, i, i)

IsWhitespace(c) == c \in {" ", "\t"}

RECURSIVE TrimStart(_)
TrimStart(s) ==
  IF Len(s) = 0 THEN s
  ELSE IF IsWhitespace(CharAt(s, 1)) THEN TrimStart(SubSeq(s, 2, Len(s)))
  ELSE s

RECURSIVE TrimEnd(_)
TrimEnd(s) ==
  IF Len(s) = 0 THEN s
  ELSE IF IsWhitespace(CharAt(s, Len(s))) THEN TrimEnd(SubSeq(s, 1, Len(s) - 1))
  ELSE s

\* String.prototype.trim
Trim(s) == TrimEnd(TrimStart(s))

\* (an accented letter is written as the letter followed by an apostrophe,
\* so that all text is ASCII: "si'" is the sent marker)
UpperChars == "ABCDEFGHIJKLMNOPQRSTUVWXYZ"
LowerChars == "abcdefghijklmnopqrstuvwxyz"

UpperSet == { CharAt(UpperChars, i) : i \in 1..Len(UpperChars) }

LowerOf ==
  [c \in UpperSet |->
     CharAt(LowerChars, CHOOSE i \in 1..Len(UpperChars) : CharAt(UpperChars, i) = c)]

LowerChar(c) == IF c \in UpperSet THEN LowerOf[c] ELSE c

RECURSIVE ToLowerCase(_)
\* String.prototype.toLowerCase
ToLowerCase(s) ==
  IF Len(s) = 0 THEN s
  ELSE LowerChar(CharAt(s, 1)) \o ToLowerCase(SubSeq(s, 2, Len(s)))

RECURSIVE IndexFrom(_, _, _)
\* first position >= i of the one-character separator c in s, 0 when absent
IndexFrom(s, c, i) ==
  IF i > Len(s) THEN 0
  ELSE IF CharAt(s, i) = c THEN i
  ELSE IndexFrom(s, c, i + 1)

RECURSIVE Split(_, _)
\* String.prototype.split with a one-character separator: "" splits to [""]
Split(s, c) ==
  LET p == IndexFrom(s, c, 1) IN
  IF p = 0 THEN <<s>>
  ELSE <<SubSeq(s, 1, p - 1)>> \o Split(SubSeq(s, p + 1, Len(s)), c)

Digits == "0123456789"

IsDigit(c) == \E i \in 1..10 : CharAt(Digits, i) = c

DigitValue(c) == (CHOOSE i \in 1..10 : CharAt(Digits, i) = c) - 1

RECURSIVE DigitPrefixLen(_)
\* length of the longest prefix of s made of decimal digits
DigitPrefixLen(s) ==
  IF Len(s) = 0 \/ ~IsDigit(CharAt(s, 1)) THEN 0
  ELSE 1 + DigitPrefixLen(SubSeq(s, 2, Len(s)))

RECURSIVE DigitsValue(_)
DigitsValue(s) ==
  IF Len(s) = 0 THEN 0
  ELSE 10 * DigitsValue(SubSeq(s, 1, Len(s) - 1)) + DigitValue(CharAt(s, Len(s)))

\* the value NaN of parseInt
NaN == -1

\* parseInt(s, 10) on text without a sign: skips leading white space, reads
\* the leading digits, NaN when there is none
ParseInt(s) ==
  LET t == TrimStart(s)
      n == DigitPrefixLen(t)
  IN IF n = 0 THEN NaN ELSE DigitsValue(SubSeq(t, 1, n))

IsAllDigits(s) == DigitPrefixLen(s) = Len(s)

(***************************************************************************)
(* Calendar: the Date constructor and the dayjs operations used            *)
(***************************************************************************)
\* days from 1970-01-01 to day d of month m (1..12) of year y; d is any
\* integer, so day 0 and day 31 of a short month land where Date puts them
DaysFromCivil(y, m, d) ==
  LET yy  == IF m <= 2 THEN y - 1 ELSE y
      era == yy \div 400
      yoe == yy - era * 400
      mp  == IF m > 2 THEN m - 3 ELSE m + 9
      doy == (153 * mp + 2) \div 5 + d - 1
      doe == yoe * 365 + yoe \div 4 - yoe \div 100 + doy
  IN era * 146097 + doe - 719468

\* new Date(year, monthIndex, day): a month index outside 0..11 and a day
\* outside the month carry over into the neighbouring months and years
DateOf(year, monthIndex, day) ==
  LET ym == year * 12 + monthIndex
  IN DaysFromCivil(ym \div 12, (ym % 12) + 1, day)

\* a dayjs value is [valid, day]; dayjs of an unparsable text is invalid
InvalidDate == [valid |-> FALSE, day |-> 0]
ValidDate(n) == [valid |-> TRUE, day |-> n]

\* new Date(text) for text REGEX_PARSE rejects: the engine's own legacy
\* parser.  No text drawn by this model reaches it.
LegacyDateParse(str) == InvalidDate

\* dayjs(str, "YYYY-M-D", true) with no customParseFormat plugin loaded: the
\* format and the strict flag are ignored and str goes through REGEX_PARSE,
\*   ^(\d{4})[-/]?(\d{1,2})?[-/]?(\d{0,2})[Tt\s]*(\d{1,2})?:?...$
\* Matched here for str = <4 digits>-<0..2 digits>-<0..2 digits><spaces>;
\* the date is new Date(d[1], d[2] - 1 || 0, d[3] || 1).
DayjsParse(str) ==
  LET parts == Split(str, "-") IN
  IF /\ Len(parts) = 3
     /\ Len(parts[1]) = 4 /\ IsAllDigits(parts[1])
     /\ Len(parts[2]) <= 2 /\ IsAllDigits(parts[2])
     /\ Len(TrimEnd(parts[3])) <= 2 /\ IsAllDigits(TrimEnd(parts[3]))
  THEN LET mi  == IF Len(parts[2]) = 0 \/ DigitsValue(parts[2]) = 1
                  THEN 0 ELSE DigitsValue(parts[2]) - 1
           dd  == IF Len(TrimEnd(parts[3])) = 0 THEN 1
                  ELSE DigitsValue(TrimEnd(parts[3]))
       IN ValidDate(DateOf(DigitsValue(parts[1]), mi, dd))
  ELSE LegacyDateParse(str)

RECURSIVE NatToString(_)
\* template-literal rendering of a non-negative integer
NatToString(n) ==
  IF n < 10 THEN CharAt(Digits, n + 1)
  ELSE NatToString(n \div 10) \o CharAt(Digits, (n % 10) + 1)

NumberToString(n) == IF n = NaN THEN "NaN" ELSE NatToString(n)

\* parseDDMMYY(s); an absent cell (undefined) is passed as ""
parseDDMMYY(s) ==
  IF Len(s) = 0 THEN InvalidDate
  ELSE
    LET t     == Trim(s)
        parts == Split(t, "/")
    IN IF Len(parts) < 3 THEN InvalidDate
       ELSE LET d    == parts[1]
                m    == parts[2]
                y    == parts[3]
                py   == ParseInt(y)
                year == IF Len(y) = 2 /\ py # NaN THEN 2000 + py ELSE py
            IN DayjsParse(NumberToString(year) \o "-" \o m \o "-" \o d)

\* fecha.isSame(today, "day")
IsSameDay(fecha, today) == fecha.day = today

\* today.add(1, "day")
AddOneDay(today) == today + 1

\* fecha.isBefore(other, "day"): the end of fecha's day is before other
IsBeforeDay(fecha, other) == fecha.day < other

(***************************************************************************)
(* Environment (process.env) and the inputs Init draws                     *)
(***************************************************************************)
\* process.env.DEST_NUMBERS
DestEnvs == {" , ", "5211", "5211, 5212@s.whatsapp.net"}

\* process.env.SEND_MODE
SendModeEnvs == {"", "UNTIL_TODAY", "hoy"}

RECURSIVE MapTrim(_)
MapTrim(ss) ==
  IF Len(ss) = 0 THEN <<>> ELSE <<Trim(Head(ss))>> \o MapTrim(Tail(ss))

\* Array.prototype.filter(Boolean) on strings: drops the empty ones
FilterBoolean(ss) == SelectSeq(ss, LAMBDA x : Len(x) > 0)

\* DEST_NUMBERS = (env || "").split(",").map(s => s.trim()).filter(Boolean)
ParseDestNumbers(env) == FilterBoolean(MapTrim(Split(env, ",")))

\* SEND_MODE = (env || "today").toLowerCase()
ParseSendMode(env) == ToLowerCase(IF Len(env) = 0 THEN "today" ELSE env)

\* the reference dates dayjs() may give: 2025-05-31 and 2025-06-10
ReferenceDates == {DateOf(2025, 4, 31), DateOf(2025, 5, 10)}

\* logical records the sheets are made of
RecordPool == <<
  [nombre |-> "Ana",    cargo |-> "Jefa", fecha |-> "10/06/25",  enviado |-> "no"],
  [nombre |-> " Luis ", cargo |-> "",     fecha |-> "1/6/2025",  enviado |-> ""],
  [nombre |-> "Eva",    cargo |-> "CTO",  fecha |-> "10/06/25",  enviado |-> " SI' "],
  [nombre |-> "Noe",    cargo |-> "Dev",  fecha |-> "10-6-25",   enviado |-> ""] >>

\* header rows: the plain one, one with another column order, case, padding
\* and a date alias, one without the Cargo column, and an empty first row
HeaderRows == {
  <<"Nombre", "Cargo", "Fecha", "Enviado">>,
  <<" ENVIADO ", "nombre", "Cargo", "Fecha (dd/mm/yy)">>,
  <<"Nombre", "Fecha", "Enviado">>,
  <<>> }

\* the column of a header row that holds logical field f, 0 when none does
LayoutColumn(h, names) ==
  IF \E i \in 1..Len(h) : ToLowerCase(Trim(h[i])) \in names
  THEN CHOOSE i \in 1..Len(h) : ToLowerCase(Trim(h[i])) \in names
  ELSE 0

RECURSIVE DropTrailingEmpty(_)
\* the Sheets API returns a row without its trailing empty cells
DropTrailingEmpty(row) ==
  IF Len(row) = 0 THEN row
  ELSE IF Len(row[Len(row)]) = 0 THEN DropTrailingEmpty(SubSeq(row, 1, Len(row) - 1))
  ELSE row

\* the sheet row of record rec under header row h
RowFor(h, rec) ==
  DropTrailingEmpty(
    [i \in 1..Len(h) |->
       IF i = LayoutColumn(h, {"nombre"}) THEN rec.nombre
       ELSE IF i = LayoutColumn(h, {"cargo"}) THEN rec.cargo
       ELSE IF i = LayoutColumn(h, {"fecha", "fecha (dd/mm/yy)"}) THEN rec.fecha
       ELSE IF i = LayoutColumn(h, {"enviado"}) THEN rec.enviado
       ELSE ""])

\* ascending choices of at most MaxRows records of the pool
RowChoices ==
  { c \in UNION { [1..n -> 1..Len(RecordPool)] : n \in 0..MaxRows } :
      \A i \in 1..Len(c) - 1 : c[i] < c[i + 1] }

\* what spreadsheets.values.get may return: nothing at all, or a header row
\* followed by data rows
Sheets ==
  {<<>>} \cup
  { <<h>> \o [i \in 1..Len(c) |->
                RowFor(IF Len(h) = 0 THEN <<"Nombre", "Cargo", "Fecha", "Enviado">> ELSE h,
                       RecordPool[c[i]])] :
      h \in HeaderRows, c \in RowChoices }

\* texts of a date cell for the study of parseDDMMYY.  Each is refused before
\* the dayjs call or is matched by REGEX_PARSE: none reaches the engine's own
\* parser.
DateTexts == {
  "", "10-6-25", "10/6", "/6/2025",
  "10/06/25", "1/6/2025", " 10/06/2025 ", "29/02/2024", "31/05/2025",
  "31/02/2024", "29/02/2025", "31/04/2025", "0/6/2025", "10/13/2025",
  "10/06/25/9", "10/6/2025/" }

\* one-record sheets under the plain header row, one per date text
DateSheets ==
  { << <<"Nombre", "Cargo", "Fecha", "Enviado">>,
       RowFor(<<"Nombre", "Cargo", "Fecha", "Enviado">>,
              [nombre |-> "Ana", cargo |-> "Jefa", fecha |-> t, enviado |-> ""]) >> :
      t \in DateTexts }

\* pairing codes the socket may hand out
QRCodes == {"2@abc"}

(***************************************************************************)
(* State                                                                   *)
(***************************************************************************)
VARIABLES
  DEST_NUMBERS,  \* configured destination addresses
  SEND_MODE,     \* configured mode, lower-cased
  sheet,         \* the worksheet's values, header row first
  sock,          \* number of sockets made so far; 0 is the initial null
  connReady,     \* the session is open
  lastQR,        \* text of the latest pairing code, "" when none
  lastQRAt,      \* 0 when no pairing code is stored, else its arrival time
  starting,      \* calls of startWA that have not made their socket yet
  pass,          \* per /send_pending invocation: position and locals
  sendLog,       \* sock.sendMessage calls that completed, in order
  writeLog,      \* spreadsheets.values.update calls that completed, in order
  previews,      \* /preview invocations so far
  previewRes,    \* the latest /preview response
  qrRes          \* the latest /qr.png response

config  == <<DEST_NUMBERS, SEND_MODE>>
session == <<sock, connReady, lastQR, lastQRAt, starting>>
history == <<sendLog, writeLog>>
\* the responses of the inspection routes
preview == <<previews, previewRes, qrRes>>
vars    == <<DEST_NUMBERS, SEND_MODE, sheet, sock, connReady, lastQR, lastQRAt,
             starting, pass, sendLog, writeLog, previews, previewRes, qrRes>>

Passes == 1..MaxPasses

\* the value undefined of a header lookup
Undefined == -1

NoResponse == [status |-> 0, error |-> "", sent |-> <<>>, count |-> 0]

\* no response of /qr.png yet
NoQrResponse == [status |-> 0, type |-> "", body |-> ""]

IdlePass ==
  [pc |-> "idle",
   cols |-> [iNombre |-> Undefined, iCargo |-> Undefined, iFecha |-> Undefined,
             iEnviado |-> Undefined],
   rows |-> <<>>, idx |-> 0, dest |-> 0,
   today |-> 0, sent |-> <<>>, res |-> NoResponse]

ErrNoDest    == "Configura DEST_NUMBERS"
ErrHeaders   == "Encabezados esperados: Nombre, Cargo, Fecha, Enviado"
ErrNotReady  == "WhatsApp no esta' listo (escanea el QR en /)."
ErrSend      == "sendMessage rejected"
ErrRead      == "spreadsheets.values.get rejected"
ErrWrite     == "spreadsheets.values.update rejected"

Init ==
  /\ \E env \in DestEnvs : DEST_NUMBERS = ParseDestNumbers(env)
  /\ \E env \in SendModeEnvs : SEND_MODE = ParseSendMode(env)
  /\ sheet \in Sheets
  /\ sock = 0
  /\ connReady = FALSE
  /\ lastQR = ""
  /\ lastQRAt = 0
  /\ starting = 1
  /\ pass = [p \in Passes |-> IdlePass]
  /\ sendLog = <<>>
  /\ writeLog = <<>>
  /\ previews = 0
  /\ previewRes = [status |-> 0, error |-> "", today |-> "", to_send |-> <<>>]
  /\ qrRes = NoQrResponse

(***************************************************************************)
(* Google Sheets helpers                                                   *)
(***************************************************************************)
Letters == "ABCDEFGHIJKLMNOPQRSTUVWXYZ"

\* colToA1 reading its argument as a 0-based index: 0 -> A, 1 -> B
colToA1ZeroBased(n) ==
  IF n >= 0 /\ n < 26 THEN CharAt(Letters, n + 1) ELSE ""

RECURSIVE colToA1(_)
\* colToA1(colIndex): 1 -> A, 26 -> Z, 27 -> AA; 0 gives ""
colToA1(n) ==
  IF n > 0
  THEN colToA1((n - 1) \div 26) \o CharAt(Letters, ((n - 1) % 26) + 1)
  ELSE ""

RECURSIVE A1Column(_)
\* the column the spreadsheet service reads from the letters of an A1 range
A1Column(letters) ==
  IF Len(letters) = 0 THEN 0
  ELSE 26 * A1Column(SubSeq(letters, 1, Len(letters) - 1))
       + (CHOOSE i \in 1..26 : CharAt(Letters, i) = CharAt(letters, Len(letters)))

\* readRows(): { headers: values[0], rows: values.slice(1) }, both empty for
\* an empty range
readRows(values) ==
  IF Len(values) = 0 THEN [headers |-> <<>>, rows |-> <<>>]
  ELSE [headers |-> values[1], rows |-> SubSeq(values, 2, Len(values))]

\* the worksheet after one cell is overwritten; the row grows to reach it
WriteCell(values, r, c, v) ==
  [values EXCEPT ![r] =
     [i \in 1..(IF c > Len(values[r]) THEN c ELSE Len(values[r])) |->
        IF i = c THEN v ELSE IF i <= Len(values[r]) THEN values[r][i] ELSE ""]]

\* updateCell(rowIndex1, colIndex1, value) when the request succeeds
updateCell(values, rowIndex1, colIndex1, value) ==
  WriteCell(values, rowIndex1, A1Column(colToA1(colIndex1)), value)

(***************************************************************************)
(* Header map and row projection (shared text of both handlers)            *)
(***************************************************************************)
\* hmap[key] for hmap = Object.fromEntries(headers.map((h, i) =>
\* [h.trim().toLowerCase(), i])): the last column with that name, 0-based
HeaderIndex(headers, key) ==
  LET hits == { i \in 1..Len(headers) : ToLowerCase(Trim(headers[i])) = key }
  IN IF hits = {} THEN Undefined
     ELSE (CHOOSE i \in hits : \A j \in hits : j <= i) - 1

\* a ?? b
Coalesce(a, b) == IF a = Undefined THEN b ELSE a

\* the constants iNombre, iCargo, iFecha, iEnviado a handler takes from hmap
Columns(headers) ==
  [iNombre  |-> HeaderIndex(headers, "nombre"),
   iCargo   |-> HeaderIndex(headers, "cargo"),
   iFecha   |-> Coalesce(HeaderIndex(headers, "fecha"),
                  Coalesce(HeaderIndex(headers, "fecha (dd/mm/yy)"),
                           HeaderIndex(headers, "fecha(dd/mm/yy)"))),
   iEnviado |-> HeaderIndex(headers, "enviado")]

\* MissingHeaders with iCargo left out of the list
MissingHeadersNoCargo(cols) ==
  \E i \in {cols.iNombre, cols.iFecha, cols.iEnviado} : i = Undefined

\* [iNombre, iCargo, iFecha, iEnviado].some(i => i === undefined)
MissingHeaders(cols) ==
  \E i \in {cols.iNombre, cols.iCargo, cols.iFecha, cols.iEnviado} : i = Undefined

\* row[i] || "": a cell beyond the end of a short row, and row[undefined],
\* read as ""
Cell(row, i) == IF i # Undefined /\ i + 1 <= Len(row) THEN row[i + 1] ELSE ""

(***************************************************************************)
(* Formatting                                                              *)
(***************************************************************************)
\* [year, month, day] of a day ordinal
CivilFromDays(z0) ==
  LET z   == z0 + 719468
      era == z \div 146097
      doe == z - era * 146097
      yoe == (doe - doe \div 1460 + doe \div 36524 - doe \div 146096) \div 365
      doy == doe - (365 * yoe + yoe \div 4 - yoe \div 100)
      mp  == (5 * doy + 2) \div 153
      d   == doy - (153 * mp + 2) \div 5 + 1
      m   == IF mp < 10 THEN mp + 3 ELSE mp - 9
      y   == yoe + era * 400 + (IF m <= 2 THEN 1 ELSE 0)
  IN [year |-> y, month |-> m, day |-> d]

Pad2(n) == IF n < 10 THEN "0" \o NatToString(n) ELSE NatToString(n)

\* fecha.format("DD/MM/YYYY")
FormatDDMMYYYY(fecha) ==
  LET c == CivilFromDays(fecha.day)
  IN Pad2(c.day) \o "/" \o Pad2(c.month) \o "/" \o NatToString(c.year)

\* dayjs().format("YYYY-MM-DD")
FormatYYYYMMDD(day) ==
  LET c == CivilFromDays(day)
  IN NatToString(c.year) \o "-" \o Pad2(c.month) \o "-" \o Pad2(c.day)

\* the reminder text of /send_pending (without its leading emoji: the text
\* of the model is ASCII)
Message(nombre, cargo, fecha) ==
  "*Recordatorio*\n- Nombre: " \o nombre \o "\n- Cargo: " \o cargo
    \o "\n- Fecha: " \o FormatDDMMYYYY(fecha)

RECURSIVE Includes(_, _)
\* String.prototype.includes
Includes(s, sub) ==
  IF Len(sub) > Len(s) THEN FALSE
  ELSE IF SubSeq(s, 1, Len(sub)) = sub THEN TRUE
  ELSE Includes(SubSeq(s, 2, Len(s)), sub)

\* the jid sendText addresses
Jid(toNumber) ==
  IF Includes(toNumber, "@s.whatsapp.net") THEN toNumber
  ELSE toNumber \o "@s.whatsapp.net"

(***************************************************************************)
(* WhatsApp session                                                        *)
(***************************************************************************)
\* startWA() gets past useMultiFileAuthState and makes its socket, or rejects
StartWA ==
  /\ starting > 0
  /\ \E ok \in BOOLEAN :
       /\ starting' = starting - 1
       /\ sock' = IF ok THEN sock + 1 ELSE sock
  /\ UNCHANGED <<config, sheet, connReady, lastQR, lastQRAt, pass, history,
                 preview>>

\* OnConnectionUpdate with shouldReconnect taken as true for every close
OnConnectionUpdateAlwaysRestart(qr, connection, loggedOut) ==
  LET hasQR == Len(qr) > 0 IN
  /\ lastQR' = IF connection = "open" THEN ""
               ELSE IF hasQR THEN qr ELSE lastQR
  /\ lastQRAt' = IF connection = "open" THEN 0
                 ELSE IF hasQR THEN 1 ELSE lastQRAt
  /\ connReady' = IF connection = "open" THEN TRUE
                  ELSE IF connection = "close" THEN FALSE
                  ELSE IF hasQR THEN FALSE ELSE connReady
  /\ starting' = IF connection = "close" THEN starting + 1 ELSE starting
  /\ sock + starting' <= MaxSockets
  /\ UNCHANGED <<config, sheet, sock, pass, history, preview>>

\* OnConnectionUpdate with the open branch leaving lastQR and lastQRAt alone
OnConnectionUpdateKeepsQR(qr, connection, loggedOut) ==
  LET hasQR == Len(qr) > 0 IN
  /\ lastQR' = IF hasQR THEN qr ELSE lastQR
  /\ lastQRAt' = IF hasQR THEN 1 ELSE lastQRAt
  /\ connReady' = IF connection = "open" THEN TRUE
                  ELSE IF connection = "close" THEN FALSE
                  ELSE IF hasQR THEN FALSE ELSE connReady
  /\ starting' = IF connection = "close" /\ ~loggedOut
                 THEN starting + 1 ELSE starting
  /\ sock + starting' <= MaxSockets
  /\ UNCHANGED <<config, sheet, sock, pass, history, preview>>

\* the body of the connection.update handler for the update
\* {connection, lastDisconnect, qr}; loggedOut tells whether lastDisconnect
\* carries the status code DisconnectReason.loggedOut
OnConnectionUpdate(qr, connection, loggedOut) ==
  LET hasQR == Len(qr) > 0 IN
  /\ lastQR' = IF connection = "open" THEN ""
               ELSE IF hasQR THEN qr ELSE lastQR
  /\ lastQRAt' = IF connection = "open" THEN 0
                 ELSE IF hasQR THEN 1 ELSE lastQRAt
  /\ connReady' = IF connection = "open" THEN TRUE
                  ELSE IF connection = "close" THEN FALSE
                  ELSE IF hasQR THEN FALSE ELSE connReady
  /\ starting' = IF connection = "close" /\ ~loggedOut
                 THEN starting + 1 ELSE starting
  /\ sock + starting' <= MaxSockets
  /\ UNCHANGED <<config, sheet, sock, pass, history, preview>>

\* the connection.update handler, for one update {connection, lastDisconnect, qr}
ConnectionUpdate ==
  /\ sock > 0
  /\ \E qr \in {""} \cup QRCodes, connection \in {"", "connecting", "open", "close"},
        loggedOut \in BOOLEAN :
       /\ connection # "close" => ~loggedOut
       /\ OnConnectionUpdate(qr, connection, loggedOut)

(***************************************************************************)
(* GET /qr.png                                                             *)
(***************************************************************************)
\* the pairing codes of a session that is sent a second code when the
\* first one expires
PairingCodes == QRCodes \cup {"2@xyz"}

\* the connection.update handler, for one update of a session that may be
\* sent either pairing code
PairingConnectionUpdate ==
  /\ sock > 0
  /\ \E qr \in {""} \cup PairingCodes,
        connection \in {"", "connecting", "open", "close"},
        loggedOut \in BOOLEAN :
       /\ connection # "close" => ~loggedOut
       /\ OnConnectionUpdate(qr, connection, loggedOut)

\* the outcome of evaluating the call hasFreshQR() in the handler: the module
\* declares and imports no such name, so the evaluation throws ReferenceError
\* before any value is had
hasFreshQR == [threw |-> TRUE, value |-> FALSE]

\* the response of /qr.png when the call hasFreshQR() has the outcome fresh
\* and lastQR is qr: an exception inside the try is answered by the catch
QrPngResponse(fresh, qr) ==
  IF fresh.threw THEN [status |-> 500, type |-> "html", body |-> "QR error"]
  ELSE IF ~fresh.value THEN [status |-> 204, type |-> "", body |-> ""]
  ELSE [status |-> 200, type |-> "png", body |-> qr]

\* the handler of /qr.png
QrPng ==
  /\ qrRes' = QrPngResponse(hasFreshQR, lastQR)
  /\ UNCHANGED <<config, sheet, session, pass, history, previews, previewRes>>

(***************************************************************************)
(* GET /preview                                                            *)
(***************************************************************************)
\* PreviewCond with "<= hoy" written as isBefore(today, "day")
PreviewCondStrict(mode, fecha, today) ==
  IF mode = "today" THEN IsSameDay(fecha, today)
  ELSE IsBeforeDay(fecha, today)

\* the due condition of /preview
PreviewCond(mode, fecha, today) ==
  IF mode = "today" THEN IsSameDay(fecha, today)
  ELSE IsBeforeDay(fecha, AddOneDay(today))

\* whether /preview lists the row
PreviewPending(cols, row, today) ==
  LET fecha   == parseDDMMYY(Cell(row, cols.iFecha))
      enviado == ToLowerCase(Trim(Cell(row, cols.iEnviado)))
  IN /\ fecha.valid
     /\ enviado # "si'"
     /\ PreviewCond(SEND_MODE, fecha, today)

PreviewEntry(cols, row, idx) ==
  [row    |-> idx + 2,
   Nombre |-> Trim(Cell(row, cols.iNombre)),
   Cargo  |-> Trim(Cell(row, cols.iCargo)),
   Fecha  |-> FormatDDMMYYYY(parseDDMMYY(Cell(row, cols.iFecha)))]

RECURSIVE PreviewList(_, _, _, _)
\* the pending list rows.forEach builds, from 0-based index idx on
PreviewList(cols, rows, idx, today) ==
  IF idx >= Len(rows) THEN <<>>
  ELSE (IF PreviewPending(cols, rows[idx + 1], today)
        THEN <<PreviewEntry(cols, rows[idx + 1], idx)>> ELSE <<>>)
       \o PreviewList(cols, rows, idx + 1, today)

\* the response of /preview for what readRows returned
PreviewResponse(read, today) ==
  LET cols == Columns(read.headers) IN
  IF Len(read.headers) = 0
  THEN [status |-> 200, error |-> "", today |-> "", to_send |-> <<>>]
  ELSE IF MissingHeaders(cols)
  THEN [status |-> 400, error |-> ErrHeaders, today |-> "", to_send |-> <<>>]
  ELSE [status |-> 200, error |-> "", today |-> FormatYYYYMMDD(today),
        to_send |-> PreviewList(cols, read.rows, 0, today)]

\* PreviewUpTo with the first listed row marked as /send_pending marks it
PreviewUpToMarking(n) ==
  /\ previews < n
  /\ previews' = previews + 1
  /\ \E ok \in BOOLEAN, today \in ReferenceDates :
       /\ previewRes' = IF ok THEN PreviewResponse(readRows(sheet), today)
                        ELSE [status |-> 500, error |-> ErrRead, today |-> "",
                              to_send |-> <<>>]
       /\ sheet' = IF Len(previewRes'.to_send) > 0
                   THEN updateCell(sheet, previewRes'.to_send[1].row,
                                   Columns(sheet[1]).iEnviado + 1, "si'")
                   ELSE sheet
  /\ UNCHANGED <<config, session, pass, history, qrRes>>

\* the handler of /preview, for the first n requests
PreviewUpTo(n) ==
  /\ previews < n
  /\ previews' = previews + 1
  /\ \E ok \in BOOLEAN, today \in ReferenceDates :
       previewRes' = IF ok THEN PreviewResponse(readRows(sheet), today)
                     ELSE [status |-> 500, error |-> ErrRead, today |-> "",
                           to_send |-> <<>>]
  /\ UNCHANGED <<config, sheet, session, pass, history, qrRes>>

Preview == PreviewUpTo(MaxPreviews)

\* /preview with one more request allowed, so that a request is repeated
PreviewRepeated == PreviewUpTo(MaxPreviews + 1)

(***************************************************************************)
(* ALL /send_pending                                                       *)
(***************************************************************************)
\* SendCond with "<= hoy" written as isBefore(today, "day")
SendCondStrict(mode, fecha, today) ==
  IF mode = "today" THEN IsSameDay(fecha, today)
  ELSE IsBeforeDay(fecha, today)

\* the due condition of /send_pending
SendCond(mode, fecha, today) ==
  IF mode = "today" THEN IsSameDay(fecha, today)
  ELSE IsBeforeDay(fecha, AddOneDay(today))

\* SendPendingDue with the flag compared without toLowerCase
SendPendingDueCaseSensitive(cols, row, today) ==
  LET fecha   == parseDDMMYY(Cell(row, cols.iFecha))
      enviado == Trim(Cell(row, cols.iEnviado))
  IN /\ fecha.valid
     /\ enviado # "si'"
     /\ IF SEND_MODE = "today" THEN IsSameDay(fecha, today)
        ELSE IsBeforeDay(fecha, AddOneDay(today))

\* whether the loop of /send_pending goes on to send the row (no continue)
SendPendingDue(cols, row, today) ==
  LET fecha   == parseDDMMYY(Cell(row, cols.iFecha))
      enviado == ToLowerCase(Trim(Cell(row, cols.iEnviado)))
  IN /\ fecha.valid
     /\ enviado # "si'"
     /\ SendCond(SEND_MODE, fecha, today)

RECURSIVE NextDue(_, _, _, _)
\* the first 0-based index >= idx the loop does not skip; Len(rows) when the
\* loop runs out
NextDue(cols, rows, idx, today) ==
  IF idx >= Len(rows) THEN Len(rows)
  ELSE IF SendPendingDue(cols, rows[idx + 1], today) THEN idx
  ELSE NextDue(cols, rows, idx + 1, today)

RECURSIVE DueSequence(_, _, _, _)
\* the row numbers the loop of /send_pending goes on to send, from 0-based
\* index idx on, when nothing fails
DueSequence(cols, rows, idx, today) ==
  LET n == NextDue(cols, rows, idx, today) IN
  IF n >= Len(rows) THEN <<>>
  ELSE <<n + 2>> \o DueSequence(cols, rows, n + 1, today)

Respond(ps, status, error) ==
  [ps EXCEPT !.pc = "done",
             !.res = [status |-> status, error |-> error,
                      sent |-> IF status = 200 THEN ps.sent ELSE <<>>,
                      count |-> IF status = 200 THEN Len(ps.sent) ELSE 0]]

\* CallSendText with the guard reduced to !sock
CallSendTextSockOnly(ps) ==
  IF sock = 0 THEN Respond(ps, 500, ErrNotReady)
  ELSE [ps EXCEPT !.pc = "sending"]

\* sendText(num, msg) up to its await: throws when the session is not ready,
\* else hands the message to sock.sendMessage
CallSendText(ps) ==
  IF sock = 0 \/ ~connReady THEN Respond(ps, 500, ErrNotReady)
  ELSE [ps EXCEPT !.pc = "sending"]

\* the for loop from 0-based index idx up to its next await or the response
RunLoop(ps, idx) ==
  LET n == NextDue(ps.cols, ps.rows, idx, ps.today) IN
  IF n >= Len(ps.rows) THEN Respond([ps EXCEPT !.idx = n], 200, "")
  ELSE CallSendText([ps EXCEPT !.idx = n, !.dest = 1])

\* SendPendingStart without the DEST_NUMBERS check
SendPendingStartUnchecked(p) ==
  /\ pass[p].pc = "idle"
  /\ \A q \in Passes : q < p => pass[q].pc # "idle"
  /\ pass' = [pass EXCEPT ![p] = [@ EXCEPT !.pc = "reading"]]
  /\ UNCHANGED <<config, sheet, session, history, preview>>

\* SendPendingStart held back while another invocation is being served
SendPendingStartExclusive(p) ==
  /\ pass[p].pc = "idle"
  /\ \A q \in Passes : q < p => pass[q].pc # "idle"
  /\ \A q \in Passes : q # p => pass[q].pc \in {"idle", "done"}
  /\ pass' = [pass EXCEPT ![p] =
       IF Len(DEST_NUMBERS) = 0 THEN Respond(@, 400, ErrNoDest)
       ELSE [@ EXCEPT !.pc = "reading"]]
  /\ UNCHANGED <<config, sheet, session, history, preview>>

\* the handler is entered: the DEST_NUMBERS check, then readRows is awaited
\* (invocations take the slots of pass in order)
SendPendingStart(p) ==
  /\ pass[p].pc = "idle"
  /\ \A q \in Passes : q < p => pass[q].pc # "idle"
  /\ pass' = [pass EXCEPT ![p] =
       IF Len(DEST_NUMBERS) = 0 THEN Respond(@, 400, ErrNoDest)
       ELSE [@ EXCEPT !.pc = "reading"]]
  /\ UNCHANGED <<config, sheet, session, history, preview>>

\* readRows settles: header map and check, today = dayjs(), and the loop up
\* to the first send
ReadRowsDone(p) ==
  /\ pass[p].pc = "reading"
  /\ \E ok \in BOOLEAN, today \in ReferenceDates :
       LET read == readRows(sheet)
           cols == Columns(read.headers)
           ps   == [pass[p] EXCEPT !.cols = cols, !.rows = read.rows,
                                   !.today = today]
       IN pass' = [pass EXCEPT ![p] =
            IF ~ok THEN Respond(@, 500, ErrRead)
            ELSE IF MissingHeaders(cols) THEN Respond(@, 400, ErrHeaders)
            ELSE RunLoop(ps, 0)]
  /\ UNCHANGED <<config, sheet, session, history, preview>>

\* the row number and the texts of the record the loop is at
CurrentRow(ps) == ps.rows[ps.idx + 1]
\* RowNumber without the header row counted
RowNumberOfData(ps) == ps.idx + 1
RowNumber(ps) == ps.idx + 2
CurrentNombre(ps) == Trim(Cell(CurrentRow(ps), ps.cols.iNombre))
CurrentCargo(ps)  == Trim(Cell(CurrentRow(ps), ps.cols.iCargo))
CurrentFecha(ps)  == parseDDMMYY(Cell(CurrentRow(ps), ps.cols.iFecha))

\* SendMessageDone with a rejection swallowed: the loop goes on as after a
\* delivery
SendMessageDoneSwallowed(p) ==
  /\ pass[p].pc = "sending"
  /\ \E ok \in BOOLEAN :
       /\ sendLog' = Append(sendLog,
            [pass |-> p, row |-> RowNumber(pass[p]),
             to |-> Jid(DEST_NUMBERS[pass[p].dest]),
             text |-> Message(CurrentNombre(pass[p]), CurrentCargo(pass[p]),
                              CurrentFecha(pass[p])),
             ok |-> ok])
       /\ pass' = [pass EXCEPT ![p] = [@ EXCEPT !.pc = "pause_send"]]
  /\ UNCHANGED <<config, sheet, session, writeLog, preview>>

\* sock.sendMessage settles; a rejection leaves the handler through catch
SendMessageDone(p) ==
  /\ pass[p].pc = "sending"
  /\ \E ok \in BOOLEAN :
       /\ sendLog' = Append(sendLog,
            [pass |-> p, row |-> RowNumber(pass[p]),
             to |-> Jid(DEST_NUMBERS[pass[p].dest]),
             text |-> Message(CurrentNombre(pass[p]), CurrentCargo(pass[p]),
                              CurrentFecha(pass[p])),
             ok |-> ok])
       /\ pass' = [pass EXCEPT ![p] =
            IF ok THEN [@ EXCEPT !.pc = "pause_send"]
            ELSE Respond(@, 500, ErrSend)]
  /\ UNCHANGED <<config, sheet, session, writeLog, preview>>

\* PauseSendDone with the loop over DEST_NUMBERS left after its first round
PauseSendDoneFirstOnly(p) ==
  /\ pass[p].pc = "pause_send"
  /\ pass' = [pass EXCEPT ![p] = [@ EXCEPT !.pc = "writing"]]
  /\ UNCHANGED <<config, sheet, session, history, preview>>

\* PauseSendDone with updateCell left out of the sequence: after the last
\* destination the loop goes straight on to the next row
PauseSendDoneNoWrite(p) ==
  /\ pass[p].pc = "pause_send"
  /\ pass' = [pass EXCEPT ![p] =
       IF @.dest < Len(DEST_NUMBERS) THEN CallSendText([@ EXCEPT !.dest = @ + 1])
       ELSE RunLoop(@, @.idx + 1)]
  /\ UNCHANGED <<config, sheet, session, history, preview>>

\* the 600 ms pause ends: the next destination, or updateCell is called
PauseSendDone(p) ==
  /\ pass[p].pc = "pause_send"
  /\ pass' = [pass EXCEPT ![p] =
       IF @.dest < Len(DEST_NUMBERS) THEN CallSendText([@ EXCEPT !.dest = @ + 1])
       ELSE [@ EXCEPT !.pc = "writing"]]
  /\ UNCHANGED <<config, sheet, session, history, preview>>

\* UpdateCellDone with the cell written also when the request is rejected
UpdateCellDoneApplied(p) ==
  /\ pass[p].pc = "writing"
  /\ \E ok \in BOOLEAN :
       LET r == RowNumber(pass[p])
           c == pass[p].cols.iEnviado + 1
       IN /\ writeLog' = Append(writeLog,
               [pass |-> p, row |-> r, col |-> c, value |-> "si'", ok |-> ok])
          /\ sheet' = updateCell(sheet, r, c, "si'")
          /\ pass' = [pass EXCEPT ![p] =
               IF ok THEN [@ EXCEPT !.pc = "pause_row",
                                    !.sent = Append(@, [row |-> r,
                                                        Nombre |-> CurrentNombre(pass[p])])]
               ELSE Respond(@, 500, ErrWrite)]
  /\ UNCHANGED <<config, session, sendLog, preview>>

\* updateCell(r, iEnviado + 1, "sí") settles
UpdateCellDone(p) ==
  /\ pass[p].pc = "writing"
  /\ \E ok \in BOOLEAN :
       LET r == RowNumber(pass[p])
           c == pass[p].cols.iEnviado + 1
       IN /\ writeLog' = Append(writeLog,
               [pass |-> p, row |-> r, col |-> c, value |-> "si'", ok |-> ok])
          /\ sheet' = IF ok THEN updateCell(sheet, r, c, "si'") ELSE sheet
          /\ pass' = [pass EXCEPT ![p] =
               IF ok THEN [@ EXCEPT !.pc = "pause_row",
                                    !.sent = Append(@, [row |-> r,
                                                        Nombre |-> CurrentNombre(pass[p])])]
               ELSE Respond(@, 500, ErrWrite)]
  /\ UNCHANGED <<config, session, sendLog, preview>>

\* the 400 ms pause ends: the loop goes on with the next row
PauseRowDone(p) ==
  /\ pass[p].pc = "pause_row"
  /\ pass' = [pass EXCEPT ![p] = RunLoop(@, @.idx + 1)]
  /\ UNCHANGED <<config, sheet, session, history, preview>>

(***************************************************************************)
(* Specifications                                                          *)
(***************************************************************************)
\* one invocation of /send_pending, any number of session events around and
\* during it, and /preview at any moment
Next ==
  \/ StartWA
  \/ ConnectionUpdate
  \/ Preview
  \/ SendPendingStart(1)
  \/ ReadRowsDone(1)
  \/ SendMessageDone(1)
  \/ PauseSendDone(1)
  \/ UpdateCellDone(1)
  \/ PauseRowDone(1)

Spec == Init /\ [][Next]_vars

\* one invocation of /send_pending, session events, and repeated requests
\* to /preview
PreviewNext ==
  \/ StartWA
  \/ ConnectionUpdate
  \/ PreviewRepeated
  \/ SendPendingStart(1)
  \/ ReadRowsDone(1)
  \/ SendMessageDone(1)
  \/ PauseSendDone(1)
  \/ UpdateCellDone(1)
  \/ PauseRowDone(1)

PreviewSpec == Init /\ [][PreviewNext]_vars

\* the pairing of the session: session events with either pairing code and
\* requests to /qr.png at any moment
QrNext ==
  \/ StartWA
  \/ PairingConnectionUpdate
  \/ QrPng

QrSpec == Init /\ [][QrNext]_vars

\* the state after construction with a sheet of DateSheets
ParseInit ==
  /\ \E env \in DestEnvs : DEST_NUMBERS = ParseDestNumbers(env)
  /\ \E env \in SendModeEnvs : SEND_MODE = ParseSendMode(env)
  /\ sheet \in DateSheets
  /\ sock = 0
  /\ connReady = FALSE
  /\ lastQR = ""
  /\ lastQRAt = 0
  /\ starting = 1
  /\ pass = [p \in Passes |-> IdlePass]
  /\ sendLog = <<>>
  /\ writeLog = <<>>
  /\ previews = 0
  /\ previewRes = [status |-> 0, error |-> "", today |-> "", to_send |-> <<>>]
  /\ qrRes = NoQrResponse

\* parseDDMMYY applied by /preview to the date cell
ParseNext == Preview

ParseSpec == ParseInit /\ [][ParseNext]_vars

\* a second invocation of /send_pending made once the first is answered
SerialSendPendingStart == pass[1].pc = "done" /\ SendPendingStart(2)

\* two invocations of /send_pending, one after the other, with any session
\* events around and during them
SerialNext ==
  \/ StartWA
  \/ ConnectionUpdate
  \/ SendPendingStart(1)
  \/ ReadRowsDone(1)
  \/ SendMessageDone(1)
  \/ PauseSendDone(1)
  \/ UpdateCellDone(1)
  \/ PauseRowDone(1)
  \/ SerialSendPendingStart
  \/ ReadRowsDone(2)
  \/ SendMessageDone(2)
  \/ PauseSendDone(2)
  \/ UpdateCellDone(2)
  \/ PauseRowDone(2)

SerialSpec == Init /\ [][SerialNext]_vars

\* two invocations of /send_pending, the second received at any moment
\* after the first, with any session events around and during them
OverlapNext ==
  \/ StartWA
  \/ ConnectionUpdate
  \/ SendPendingStart(1)
  \/ ReadRowsDone(1)
  \/ SendMessageDone(1)
  \/ PauseSendDone(1)
  \/ UpdateCellDone(1)
  \/ PauseRowDone(1)
  \/ SendPendingStart(2)
  \/ ReadRowsDone(2)
  \/ SendMessageDone(2)
  \/ PauseSendDone(2)
  \/ UpdateCellDone(2)
  \/ PauseRowDone(2)

\* the initial states with the plain header row, or no row at all
OverlapInit ==
  /\ Init
  /\ Len(sheet) > 0 => sheet[1] = <<"Nombre", "Cargo", "Fecha", "Enviado">>

OverlapSpec == OverlapInit /\ [][OverlapNext]_vars

(***************************************************************************)
(* Vocabulary of the properties                                            *)
(***************************************************************************)
SendsOf(p)  == SelectSeq(sendLog, LAMBDA e : e.pass = p)
WritesOf(p) == SelectSeq(writeLog, LAMBDA e : e.pass = p)

\* pass p has read the sheet and entered its loop
InLoop(p) ==
  /\ pass[p].pc \notin {"idle", "reading"}
  /\ pass[p].res.error \notin {ErrNoDest, ErrRead, ErrHeaders}

\* pass p is at a due row: between the first send for it and the end of the
\* pause after its write-back, or stopped by an error while on it
AtRow(p) == InLoop(p) /\ pass[p].idx < Len(pass[p].rows)

Ready == sock > 0 /\ connReady

\* a sent-flag cell that reads "sí" in some letter case once trimmed
IsSentFlag(cell) == Trim(cell) \in {"si'", "Si'", "sI'", "SI'"}

\* every destination has a successful send of pass p for row r, and no send
\* of pass p for row r failed
AllDestSent(p, r) ==
  /\ \A d \in 1..Len(DEST_NUMBERS) :
       \E j \in 1..Len(sendLog) :
         /\ sendLog[j].pass = p /\ sendLog[j].row = r
         /\ sendLog[j].to = Jid(DEST_NUMBERS[d]) /\ sendLog[j].ok
  /\ \A j \in 1..Len(sendLog) :
       sendLog[j].pass = p /\ sendLog[j].row = r => sendLog[j].ok

\* the 0-based indexes after idx of the rows pass p would still send
LaterDue(p, idx) ==
  { i \in (idx + 1)..(Len(pass[p].rows) - 1) :
      SendPendingDue(pass[p].cols, pass[p].rows[i + 1], pass[p].today) }

\* the due decision as the date policy words it, for a row as read
PolicyDue(cols, row, today, mode) ==
  LET fecha == parseDDMMYY(Cell(row, cols.iFecha)) IN
  /\ fecha.valid
  /\ ~IsSentFlag(Cell(row, cols.iEnviado))
  /\ mode = "today" => CivilFromDays(fecha.day) = CivilFromDays(today)
  /\ mode = "until_today" => fecha.day <= today

\* one of the four logical fields is named by no cell of the stored header
\* row (names compared trimmed and in lower case; fecha has two aliases)
HeadersMissing ==
  LET headers == readRows(sheet).headers
      names   == { ToLowerCase(Trim(headers[i])) : i \in 1..Len(headers) }
  IN  \/ "nombre" \notin names
      \/ "cargo" \notin names
      \/ names \cap {"fecha", "fecha (dd/mm/yy)", "fecha(dd/mm/yy)"} = {}
      \/ "enviado" \notin names

(***************************************************************************)
(* Properties                                                              *)
(***************************************************************************)
\* C1: in a pass, updateCell for a row is called only once every configured
\* destination has a successful send for that row and none has failed; no
\* write-back, attempted or done, exists without them.
C1_MarkOnlyAfterAllSends ==
  \A p \in Passes :
    /\ \A i \in 1..Len(writeLog) :
         writeLog[i].pass = p => AllDestSent(p, writeLog[i].row)
    /\ pass[p].pc \in {"writing", "pause_row"} => AllDestSent(p, RowNumber(pass[p]))

C1_Witness ==
  /\ Len(DEST_NUMBERS) = 2
  /\ \E i \in 1..Len(writeLog) : writeLog[i].ok

\* C2 (as claimed): when a send to one destination fails, the remaining
\* destinations of that row are still sent to and the later due rows are
\* still processed: a pass that has ended has done both.
C2_SendFailureDoesNotEndPass ==
  \A p \in Passes : \A j \in 1..Len(sendLog) :
    (pass[p].pc = "done" /\ sendLog[j].pass = p /\ ~sendLog[j].ok) =>
      /\ \A d \in 1..Len(DEST_NUMBERS) :
           \E k \in 1..Len(sendLog) :
             /\ sendLog[k].pass = p /\ sendLog[k].row = sendLog[j].row
             /\ sendLog[k].to = Jid(DEST_NUMBERS[d])
      /\ \A i \in LaterDue(p, sendLog[j].row - 2) :
           \E k \in 1..Len(sendLog) : sendLog[k].pass = p /\ sendLog[k].row = i + 2

\* C3 (as claimed): when the write-back fails for a row, the pass still
\* processes every later due row: a pass that has ended has sent them.
C3_WriteFailureDoesNotEndPass ==
  \A p \in Passes : \A j \in 1..Len(writeLog) :
    (pass[p].pc = "done" /\ writeLog[j].pass = p /\ ~writeLog[j].ok) =>
      /\ \A i \in LaterDue(p, writeLog[j].row - 2) :
           \E k \in 1..Len(sendLog) : sendLog[k].pass = p /\ sendLog[k].row = i + 2

\* C4 (as claimed): the response of a pass lists every row the pass sent and
\* marked, also when a later send or write-back failed; such a failure is
\* not answered as an error of the whole pass.
C4_PartialPassIsAccounted ==
  \A p \in Passes : \A j \in 1..Len(writeLog) :
    (pass[p].pc = "done" /\ writeLog[j].pass = p /\ writeLog[j].ok) =>
      /\ pass[p].res.status = 200
      /\ \E k \in 1..Len(pass[p].res.sent) : pass[p].res.sent[k].row = writeLog[j].row

\* C5 (amended): a send is handed to the socket only while the session is
\* ready; a pass that reaches a send while it is not ready answers 500 with
\* the not-ready error, and it has then performed exactly the sends and
\* write-backs of the rows it completed before, all successful, and none
\* after: none at all when its first send found the session not ready.
C5_NotReadyStopsAtSend ==
  /\ [](\A p \in Passes :
          pass[p].res.error = ErrNotReady =>
            /\ pass[p].pc = "done" /\ pass[p].res.status = 500
            /\ AtRow(p)
            /\ Len(SendsOf(p)) = Len(DEST_NUMBERS) * Len(pass[p].sent) + pass[p].dest - 1
            /\ Len(WritesOf(p)) = Len(pass[p].sent)
            /\ \A j \in 1..Len(sendLog) : sendLog[j].pass = p => sendLog[j].ok
            /\ \A j \in 1..Len(writeLog) : writeLog[j].pass = p => writeLog[j].ok)
  /\ [][\A p \in Passes :
          /\ (pass[p].pc # "sending" /\ pass'[p].pc = "sending") => Ready
          /\ (pass[p].pc = "pause_send" /\ pass[p].dest < Len(DEST_NUMBERS)
                /\ pass'[p].pc # "pause_send" /\ ~Ready)
               => pass'[p].res.error = ErrNotReady]_vars

C5_Witness ==
  /\ pass[1].res.error = ErrNotReady
  /\ Len(pass[1].rows) > 0
  /\ sendLog = <<>> /\ writeLog = <<>>

\* C5 (as claimed): a pass invoked while the channel is not ready ends with
\* the not-ready error, without any send or mark, also when no row is due;
\* and a pass that finds the channel not ready marks no row.  (sock = 0 now
\* means no socket existed at any earlier moment either.)
C5_NotReadyAlwaysAborts ==
  \A p \in Passes :
    /\ (sock = 0 /\ pass[p].pc = "done"
          /\ pass[p].res.error \notin {ErrNoDest, ErrRead, ErrHeaders})
         => (pass[p].res.error = ErrNotReady /\ pass[p].res.status = 500)
    /\ sock = 0 => (sendLog = <<>> /\ writeLog = <<>>)
    /\ pass[p].res.error = ErrNotReady =>
         \A j \in 1..Len(writeLog) : writeLog[j].pass = p => ~writeLog[j].ok

\* C6 (amended): when a header field does not resolve, no send and no
\* write-back ever happens; a pass that has destinations and has read the
\* sheet answers 400 with the headers error; /preview, having read the
\* sheet, answers 400 with the headers error when the header row is not
\* empty and 200 with an empty list when the header row is empty.
C6_MissingHeadersRejected ==
  HeadersMissing =>
    /\ sendLog = <<>> /\ writeLog = <<>>
    /\ \A p \in Passes :
         (pass[p].pc = "done" /\ Len(DEST_NUMBERS) > 0 /\ pass[p].res.error # ErrRead)
           => (pass[p].res.status = 400 /\ pass[p].res.error = ErrHeaders)
    /\ (previews > 0 /\ previewRes.error # ErrRead) =>
         IF Len(readRows(sheet).headers) = 0
         THEN previewRes.status = 200 /\ previewRes.to_send = <<>>
         ELSE previewRes.status = 400 /\ previewRes.error = ErrHeaders

C6_Witness ==
  /\ HeadersMissing
  /\ Len(readRows(sheet).headers) > 0
  /\ Len(sheet) > 1
  /\ previewRes.status = 400
  /\ pass[1].pc = "done" /\ pass[1].res.error = ErrHeaders

\* C6 (as claimed): when a header field does not resolve, an empty header
\* row included, /preview and the pass both answer with the headers error,
\* before any send or write-back.  (Responses to a failed read, and of a
\* pass without destinations, are left aside.)
C6_BothFailOnMissingHeaders ==
  HeadersMissing =>
    /\ sendLog = <<>> /\ writeLog = <<>>
    /\ \A p \in Passes :
         (pass[p].pc = "done" /\ Len(DEST_NUMBERS) > 0 /\ pass[p].res.error # ErrRead)
           => (pass[p].res.status = 400 /\ pass[p].res.error = ErrHeaders)
    /\ (previews > 0 /\ previewRes.error # ErrRead)
           => (previewRes.status = 400 /\ previewRes.error = ErrHeaders)

\* C7: with no destination configured a pass answers 400 with the
\* no-destinations error at once: it never reads the sheet, sends nothing
\* and writes nothing.
C7_NoDestinationsAborts ==
  Len(DEST_NUMBERS) = 0 =>
    /\ sendLog = <<>> /\ writeLog = <<>>
    /\ \A p \in Passes :
         /\ pass[p].pc \in {"idle", "done"}
         /\ pass[p].pc = "done" =>
              (pass[p].res.status = 400 /\ pass[p].res.error = ErrNoDest)

C7_Witness ==
  /\ Len(DEST_NUMBERS) = 0
  /\ pass[1].pc = "done"
  /\ Len(sheet) > 1 /\ ~HeadersMissing

\* C8: a row whose sent flag reads "sí" in any letter case is never listed
\* by /preview and never sent or marked by a pass.
C8_SentRowsNeverDue ==
  /\ [](\A p \in Passes :
          /\ \A j \in 1..Len(sendLog) :
               sendLog[j].pass = p =>
                 ~IsSentFlag(Cell(pass[p].rows[sendLog[j].row - 1], pass[p].cols.iEnviado))
          /\ \A j \in 1..Len(writeLog) :
               writeLog[j].pass = p =>
                 ~IsSentFlag(Cell(pass[p].rows[writeLog[j].row - 1], pass[p].cols.iEnviado))
          /\ AtRow(p) => ~IsSentFlag(Cell(CurrentRow(pass[p]), pass[p].cols.iEnviado)))
  /\ [][previews' # previews =>
          \A k \in 1..Len(previewRes'.to_send) :
            ~IsSentFlag(Cell(sheet[previewRes'.to_send[k].row],
                             Columns(sheet[1]).iEnviado))]_vars

\* a flagged row dated on the reference date was read by a pass that went on
\* to send another row, and /preview has answered with a list
C8_Witness ==
  /\ pass[1].pc = "done" /\ pass[1].res.status = 200
  /\ Len(sendLog) > 0
  /\ \E i \in 1..Len(pass[1].rows) :
       /\ IsSentFlag(Cell(pass[1].rows[i], pass[1].cols.iEnviado))
       /\ parseDDMMYY(Cell(pass[1].rows[i], pass[1].cols.iFecha)).day = pass[1].today
  /\ previewRes.status = 200 /\ Len(previewRes.to_send) > 0

\* C9: under mode "today" a row with a parsed date and no sent flag is due
\* iff its date is the reference date's calendar day, under "until_today"
\* iff its date is on or before the reference date: the rows a pass has
\* completed are the due rows before its position, the row it is at is due,
\* and /preview lists exactly the due rows.
C9_DueFollowsPolicy ==
  /\ [](SEND_MODE \in {"today", "until_today"} =>
          \A p \in Passes : InLoop(p) =>
            /\ { pass[p].sent[k].row : k \in 1..Len(pass[p].sent) }
                 = { n + 2 : n \in { i \in 0..(Len(pass[p].rows) - 1) :
                       /\ i < pass[p].idx \/ (i = pass[p].idx /\ pass[p].pc = "pause_row")
                       /\ PolicyDue(pass[p].cols, pass[p].rows[i + 1],
                                    pass[p].today, SEND_MODE) } }
            /\ AtRow(p) => PolicyDue(pass[p].cols, CurrentRow(pass[p]),
                                     pass[p].today, SEND_MODE)
            /\ (pass[p].pc = "done" /\ pass[p].res.status = 200)
                 => pass[p].idx = Len(pass[p].rows))
  /\ [][(SEND_MODE \in {"today", "until_today"} /\ previews' # previews
           /\ previewRes'.status = 200 /\ Len(sheet) > 0) =>
          \E today \in ReferenceDates :
            /\ Len(sheet[1]) > 0 => previewRes'.today = FormatYYYYMMDD(today)
            /\ { previewRes'.to_send[k].row : k \in 1..Len(previewRes'.to_send) }
                 = { r \in 2..Len(sheet) :
                       PolicyDue(Columns(sheet[1]), sheet[r], today, SEND_MODE) }]_vars

\* under "until_today" on 2025-06-10 a pass has sent the row dated 1/6/2025
\* and the row dated 10/06/25
C9_Witness ==
  /\ SEND_MODE = "until_today"
  /\ pass[1].pc = "done" /\ pass[1].res.status = 200
  /\ pass[1].today = DateOf(2025, 5, 10)
  /\ Len(pass[1].sent) = 2
  /\ previewRes.status = 200

\* C10 (as claimed): under a mode that is neither "today" nor "until_today"
\* a row dated before the reference date is not due: a pass sends only rows
\* dated on its reference date and /preview lists only such rows.
C10_UnknownModeMeansToday ==
  SEND_MODE \notin {"today", "until_today"} =>
    /\ \A j \in 1..Len(sendLog) :
         LET ps == pass[sendLog[j].pass] IN
         parseDDMMYY(Cell(ps.rows[sendLog[j].row - 1], ps.cols.iFecha)).day = ps.today
    /\ \A k \in 1..Len(previewRes.to_send) :
         FormatYYYYMMDD(parseDDMMYY(Cell(sheet[previewRes.to_send[k].row],
                                         Columns(sheet[1]).iFecha)).day)
           = previewRes.today

\* the text of cell (r, c), 1-based, "" where the sheet holds nothing
CellAt(values, r, c) ==
  IF r <= Len(values) /\ c <= Len(values[r]) THEN values[r][c] ELSE ""

\* the columns some row of values or of other reaches
ColumnsOf(values, other) ==
  { c \in 1..26 : \E r \in 1..Len(values) : c <= Len(values[r]) }
    \cup { c \in 1..26 : \E r \in 1..Len(other) : c <= Len(other[r]) }

\* C11: every step that changes the store is the write-back of a pass at
\* 0-based data index i whose row has a successful send to every
\* destination: the sheet keeps its rows, the cell at row i + 2 in the
\* column headed "enviado" becomes the marker, every other cell keeps its
\* text, and the messages of that pass for that row carry the name, charge
\* and date stored in row i + 2.
C11_OnlySentCellWritten ==
  [][sheet' # sheet =>
       \E p \in Passes :
         LET r == pass[p].idx + 2 IN
         /\ pass[p].pc = "writing" /\ pass'[p].pc = "pause_row"
         /\ AllDestSent(p, r)
         /\ Len(sheet') = Len(sheet)
         /\ r \in 2..Len(sheet)
         /\ \E c \in 1..Len(sheet[1]) :
              /\ ToLowerCase(Trim(sheet[1][c])) = "enviado"
              /\ CellAt(sheet', r, c) = "si'"
              /\ \A rr \in 1..Len(sheet), cc \in ColumnsOf(sheet, sheet') :
                   <<rr, cc>> # <<r, c>> => CellAt(sheet', rr, cc) = CellAt(sheet, rr, cc)
         /\ \A j \in 1..Len(sendLog) :
              (sendLog[j].pass = p /\ sendLog[j].row = r) =>
                \E cn, cg, cf \in 1..Len(sheet[1]) :
                  /\ ToLowerCase(Trim(sheet[1][cn])) = "nombre"
                  /\ ToLowerCase(Trim(sheet[1][cg])) = "cargo"
                  /\ ToLowerCase(Trim(sheet[1][cf])) \in {"fecha", "fecha (dd/mm/yy)"}
                  /\ sendLog[j].text =
                       Message(Trim(CellAt(sheet, r, cn)), Trim(CellAt(sheet, r, cg)),
                               parseDDMMYY(CellAt(sheet, r, cf)))]_vars

\* two rows are marked by one pass under the header row whose sent column
\* comes first
C11_Witness ==
  /\ Len(sheet) = 3 /\ Len(sheet[1]) = 4
  /\ ToLowerCase(Trim(sheet[1][1])) = "enviado"
  /\ Len(writeLog) = 2 /\ writeLog[1].ok /\ writeLog[2].ok
  /\ CellAt(sheet, 2, 1) = "si'" /\ CellAt(sheet, 3, 1) = "si'"

\* C12: a row for which a send of the first pass failed has no write-back
\* by that pass and stays in the store as that pass read it until the second
\* pass marks it; a second pass with the same reference date goes to that
\* row first: it is at that row while it has sent nothing, and its first
\* send is the failed row's message.
C12_FailedRowRetried ==
  \A j \in 1..Len(sendLog) :
    (sendLog[j].pass = 1 /\ ~sendLog[j].ok) =>
      LET r == sendLog[j].row IN
      /\ \A k \in 1..Len(writeLog) : writeLog[k].pass = 1 => writeLog[k].row # r
      /\ (\A k \in 1..Len(writeLog) : ~(writeLog[k].pass = 2 /\ writeLog[k].ok))
           => sheet[r] = pass[1].rows[r - 1]
      /\ (InLoop(2) /\ pass[2].today = pass[1].today) =>
           /\ pass[2].rows[r - 1] = pass[1].rows[r - 1]
           /\ SendsOf(2) = <<>> => (pass[2].idx = r - 2 /\ AtRow(2))
           /\ SendsOf(2) # <<>> =>
                /\ SendsOf(2)[1].row = r
                /\ SendsOf(2)[1].text = sendLog[j].text
                /\ SendsOf(2)[1].to = Jid(DEST_NUMBERS[1])

\* the send to the second destination failed for row 3 in the first pass,
\* after row 2 was marked; the second pass has sent row 3 to both
C12_Witness ==
  /\ Len(DEST_NUMBERS) = 2
  /\ \E j \in 1..Len(sendLog) :
       /\ sendLog[j].pass = 1 /\ ~sendLog[j].ok /\ sendLog[j].row = 3
       /\ sendLog[j].to = Jid(DEST_NUMBERS[2])
  /\ \E k \in 1..Len(writeLog) : writeLog[k].pass = 1 /\ writeLog[k].ok
  /\ pass[2].today = pass[1].today
  /\ \A d \in 1..Len(DEST_NUMBERS) :
       \E k \in 1..Len(sendLog) :
         /\ sendLog[k].pass = 2 /\ sendLog[k].ok /\ sendLog[k].row = 3
         /\ sendLog[k].to = Jid(DEST_NUMBERS[d])

\* pass p has every send of the row at 0-based index i behind it
PastSendsOf(p, i) ==
  /\ InLoop(p)
  /\ \/ pass[p].idx > i
     \/ pass[p].idx = i /\ pass[p].pc \in {"writing", "pause_row"}
     \/ pass[p].idx = i /\ pass[p].res.error = ErrWrite

\* C13: a row whose write-back failed in the first pass, after a successful
\* send to every destination, stays in the store as that pass read it until
\* the second pass marks it; a second pass with the same reference date goes
\* to that row first, and once its sends for the row are behind it every
\* destination has received the row's message twice, once from each pass.
C13_WriteFailureResends ==
  \A j \in 1..Len(writeLog) :
    (writeLog[j].pass = 1 /\ ~writeLog[j].ok) =>
      LET r == writeLog[j].row IN
      /\ AllDestSent(1, r)
      /\ (\A k \in 1..Len(writeLog) : ~(writeLog[k].pass = 2 /\ writeLog[k].ok))
           => sheet[r] = pass[1].rows[r - 1]
      /\ (InLoop(2) /\ pass[2].today = pass[1].today) =>
           /\ SendsOf(2) = <<>> => (pass[2].idx = r - 2 /\ AtRow(2))
           /\ SendsOf(2) # <<>> => SendsOf(2)[1].row = r
           /\ PastSendsOf(2, r - 2) =>
                \A d \in 1..Len(DEST_NUMBERS) :
                  \E a, b \in 1..Len(sendLog) :
                    /\ sendLog[a].pass = 1 /\ sendLog[b].pass = 2
                    /\ sendLog[a].ok /\ sendLog[b].ok
                    /\ sendLog[a].row = r /\ sendLog[b].row = r
                    /\ sendLog[a].to = Jid(DEST_NUMBERS[d])
                    /\ sendLog[b].to = Jid(DEST_NUMBERS[d])
                    /\ sendLog[a].text = sendLog[b].text

\* with two destinations, the write-back of the first pass failed and the
\* second pass has answered 200: four deliveries of one row's message
C13_Witness ==
  /\ Len(DEST_NUMBERS) = 2
  /\ \E j \in 1..Len(writeLog) : writeLog[j].pass = 1 /\ ~writeLog[j].ok
  /\ pass[2].pc = "done" /\ pass[2].res.status = 200
  /\ pass[2].today = pass[1].today
  /\ \E r \in 2..Len(sheet) :
       Cardinality({ k \in 1..Len(sendLog) : sendLog[k].row = r /\ sendLog[k].ok }) = 4

\* C14: once a first pass has answered 200, a second pass is not refused
\* for its destinations or headers, and with the same reference date it
\* finds nothing due: it answers 200 with an empty list and
\* performs no send and no write-back, the store stays as the first pass
\* left it, and every row the first pass reported has exactly one send per
\* destination in all.
C14_SecondPassDoesNothing ==
  (pass[1].pc = "done" /\ pass[1].res.status = 200) =>
    /\ \A k \in 1..Len(pass[1].sent), d \in 1..Len(DEST_NUMBERS) :
         Cardinality({ j \in 1..Len(sendLog) :
                         /\ sendLog[j].row = pass[1].sent[k].row
                         /\ sendLog[j].to = Jid(DEST_NUMBERS[d]) }) = 1
    /\ pass[2].res.error \notin {ErrNoDest, ErrHeaders}
    /\ (InLoop(2) /\ pass[2].today = pass[1].today) =>
         /\ pass[2].pc = "done"
         /\ pass[2].res = [status |-> 200, error |-> "", sent |-> <<>>, count |-> 0]
         /\ SendsOf(2) = <<>> /\ WritesOf(2) = <<>>
         /\ Len(writeLog) = Len(pass[1].sent)

\* the first pass sent and marked two rows to two destinations, and the
\* second pass, on the same day, has answered
C14_Witness ==
  /\ Len(DEST_NUMBERS) = 2
  /\ pass[1].pc = "done" /\ pass[1].res.status = 200 /\ pass[1].res.count = 2
  /\ pass[2].pc = "done" /\ pass[2].res.status = 200
  /\ pass[2].today = pass[1].today
  /\ Len(sendLog) = 4

\* C15: a step that answers /preview leaves the configuration, the store,
\* the session, every pass and the logs of sends and write-backs as they
\* were; and a request repeated on a store that no write-back has changed,
\* with the same reference date, lists the same rows with the same texts.
C15_PreviewHasNoSideEffects ==
  [][previews' # previews =>
       /\ UNCHANGED <<DEST_NUMBERS, SEND_MODE, sheet, sock, connReady, lastQR,
                      lastQRAt, starting, pass, sendLog, writeLog>>
       /\ (/\ previews > 0
           /\ \A k \in 1..Len(writeLog) : ~writeLog[k].ok
           /\ previewRes.status = 200 /\ previewRes'.status = 200
           /\ previewRes.today = previewRes'.today)
            => previewRes'.to_send = previewRes.to_send]_vars

\* /preview was answered twice with a list of two rows, while a pass was
\* waiting for a send to settle on an open session
C15_Witness ==
  /\ previews = 2
  /\ Len(previewRes.to_send) = 2
  /\ pass[1].pc = "sending" /\ connReady
  /\ writeLog = <<>>

\* the row numbers of a list of entries, in order
RowsOf(entries) == [k \in 1..Len(entries) |-> entries[k].row]

\* C16: the rows a pass has sent and marked when it answers 200 are, in
\* order, the rows /preview lists for the content and the reference date
\* the pass read; and the rows a /preview response lists are, in order, the
\* rows the loop of /send_pending selects on the same store and date.
C16_PreviewListsWhatPassSends ==
  /\ [](\A p \in Passes :
          (pass[p].pc = "done" /\ pass[p].res.status = 200) =>
            /\ RowsOf(pass[p].res.sent)
                 = RowsOf(PreviewList(pass[p].cols, pass[p].rows, 0, pass[p].today))
            /\ \A k \in 1..Len(pass[p].res.sent) :
                 AllDestSent(p, pass[p].res.sent[k].row)
            /\ \A j \in 1..Len(sendLog) :
                 sendLog[j].pass = p =>
                   \E k \in 1..Len(pass[p].res.sent) :
                     pass[p].res.sent[k].row = sendLog[j].row)
  /\ [][(previews' # previews /\ previewRes'.status = 200 /\ Len(sheet) > 0
           /\ Len(sheet[1]) > 0) =>
          \E today \in ReferenceDates :
            /\ previewRes'.today = FormatYYYYMMDD(today)
            /\ RowsOf(previewRes'.to_send)
                 = DueSequence(Columns(sheet[1]), readRows(sheet).rows, 0, today)]_vars

\* /preview listed rows 2 and 3 and a pass of the same day then sent and
\* marked rows 2 and 3
C16_Witness ==
  /\ previewRes.status = 200
  /\ RowsOf(previewRes.to_send) = <<2, 3>>
  /\ pass[1].pc = "done" /\ pass[1].res.status = 200
  /\ RowsOf(pass[1].res.sent) = <<2, 3>>
  /\ previewRes.today = FormatYYYYMMDD(pass[1].today)

\* C17: a second invocation of /send_pending is taken up at every moment
\* after the first one was received, whatever the first one is doing: while
\* it waits for the read, for a send, for the write-back or in a pause.
C17_NoMutualExclusion ==
  (pass[1].pc # "idle" /\ pass[2].pc = "idle") => ENABLED SendPendingStart(2)

\* both invocations have delivered the message of one row to the same
\* destination, and both have answered 200 listing that row
C17_Witness ==
  /\ pass[1].pc = "done" /\ pass[1].res.status = 200
  /\ pass[2].pc = "done" /\ pass[2].res.status = 200
  /\ pass[1].today = pass[2].today
  /\ \E a, b \in 1..Len(sendLog) :
       /\ sendLog[a].pass = 1 /\ sendLog[b].pass = 2
       /\ sendLog[a].ok /\ sendLog[b].ok
       /\ sendLog[a].row = sendLog[b].row
       /\ sendLog[a].to = sendLog[b].to
       /\ sendLog[a].text = sendLog[b].text
       /\ \E k \in 1..Len(pass[1].res.sent) : pass[1].res.sent[k].row = sendLog[a].row
       /\ \E k \in 1..Len(pass[2].res.sent) : pass[2].res.sent[k].row = sendLog[a].row

\* the days of month m (1..12) of year y
DaysInMonth(y, m) ==
  IF m = 2
  THEN (IF (y % 4 = 0 /\ y % 100 # 0) \/ y % 400 = 0 THEN 29 ELSE 28)
  ELSE IF m \in {4, 6, 9, 11} THEN 30 ELSE 31

\* text of the form D/M/Y that names a real calendar day: exactly three
\* components of digits, one or two for D and M, two or four for Y
IsCalendarText(s) ==
  LET parts == Split(Trim(s), "/") IN
  /\ Len(parts) = 3
  /\ \A i \in 1..3 : Len(parts[i]) > 0 /\ IsAllDigits(parts[i])
  /\ Len(parts[1]) <= 2 /\ Len(parts[2]) <= 2 /\ Len(parts[3]) \in {2, 4}
  /\ LET y == IF Len(parts[3]) = 2 THEN 2000 + DigitsValue(parts[3])
               ELSE DigitsValue(parts[3])
          m == DigitsValue(parts[2])
          d == DigitsValue(parts[1])
      IN m \in 1..12 /\ d \in 1..DaysInMonth(y, m)

\* the text of the date cell of sheet row r
FechaText(r) == Cell(sheet[r], Columns(sheet[1]).iFecha)

\* C18 (as claimed): parseDDMMYY returns a date only for text of the form
\* D/M/Y that names a real calendar day, and null for every other text: a
\* row that /preview lists, with the date parseDDMMYY returned, has such a
\* text in its date cell.
C18_ParseIsStrict ==
  \A k \in 1..Len(previewRes.to_send) :
    LET t == FechaText(previewRes.to_send[k].row) IN
    /\ parseDDMMYY(t).valid
    /\ previewRes.to_send[k].Fecha = FormatDDMMYYYY(parseDDMMYY(t))
    /\ IsCalendarText(t)

\* C19: the sends of a pass are in ascending row order, and so are its
\* write-backs; when a pass hands a send to the socket, and when that send
\* settles, every lower row the pass has sent has a successful send to every
\* destination and a successful write-back behind it.
C19_RowsInSequence ==
  /\ [](\A p \in Passes :
          /\ \A j, k \in 1..Len(SendsOf(p)) :
               j < k => SendsOf(p)[j].row <= SendsOf(p)[k].row
          /\ \A j, k \in 1..Len(WritesOf(p)) :
               j < k => WritesOf(p)[j].row < WritesOf(p)[k].row)
  /\ [][\A p \in Passes :
          (pass'[p].pc = "sending" \/ Len(SendsOf(p)') > Len(SendsOf(p))) =>
            LET r == IF pass'[p].pc = "sending" THEN pass'[p].idx + 2
                     ELSE SendsOf(p)'[Len(SendsOf(p)')].row
            IN \A j \in 1..Len(sendLog) :
                 (sendLog[j].pass = p /\ sendLog[j].row < r) =>
                   /\ AllDestSent(p, sendLog[j].row)
                   /\ \E k \in 1..Len(writeLog) :
                        /\ writeLog[k].pass = p /\ writeLog[k].ok
                        /\ writeLog[k].row = sendLog[j].row]_vars

\* a pass has sent rows 2 and 3 to two destinations each and marked both
C19_Witness ==
  /\ Len(DEST_NUMBERS) = 2
  /\ Len(SendsOf(1)) = 4
  /\ SendsOf(1)[2].row = 2 /\ SendsOf(1)[3].row = 3
  /\ Len(WritesOf(1)) = 2 /\ WritesOf(1)[2].ok

\* a step of the connection.update handler for an update with the given
\* connection value and close reason, whatever its qr
UpdateStep(connection, loggedOut) ==
  /\ sock > 0
  /\ \E qr \in {""} \cup QRCodes : OnConnectionUpdate(qr, connection, loggedOut)

\* C20: a "close" update leaves the session not ready and makes no socket;
\* when its reason is not the explicit logout one more call of startWA is
\* pending after it, and when it is the explicit logout none is.  A call of
\* startWA becomes pending only by a close that is not a logout, the session
\* becomes ready only by an "open" update, and a socket is made only by a
\* pending call of startWA, which leaves readiness as it was.
C20_CloseStopsAndRestarts ==
  [][/\ \A loggedOut \in BOOLEAN :
          UpdateStep("close", loggedOut) =>
            /\ ~connReady'
            /\ sock' = sock
            /\ starting' = IF loggedOut THEN starting ELSE starting + 1
     /\ starting' > starting => UpdateStep("close", FALSE)
     /\ (connReady' /\ ~connReady) => UpdateStep("open", FALSE)
     /\ sock' # sock =>
          /\ starting > 0 /\ starting' = starting - 1
          /\ sock' = sock + 1
          /\ connReady' = connReady]_vars

\* after a close that was not a logout the second call of startWA has made
\* its socket and the session is open again, with no pairing code kept
C20_Witness ==
  /\ sock = 2 /\ starting = 0
  /\ connReady /\ lastQR = ""

\* an update of the live socket that carries the pairing code qr and reports
\* connection
PairingStep(qr, connection) ==
  /\ sock > 0
  /\ \E loggedOut \in BOOLEAN : OnConnectionUpdate(qr, connection, loggedOut)

\* C21: in every state a ready session has no pairing code stored (lastQR is
\* empty and lastQRAt is 0).  The session becomes ready only by an update that
\* reports "open", and every such update ends with no code stored, whatever
\* was stored before and whether or not the update carries a code itself.  An
\* update that carries a code and does not report "open" ends not ready with
\* that code stored.
C21_ReadyHasNoPairingCode ==
  /\ [](connReady => lastQR = "" /\ lastQRAt = 0)
  /\ [][/\ (connReady' /\ ~connReady) =>
             \E qr \in {""} \cup PairingCodes : PairingStep(qr, "open")
        /\ \A qr \in {""} \cup PairingCodes :
             PairingStep(qr, "open") =>
               connReady' /\ lastQR' = "" /\ lastQRAt' = 0
        /\ \A qr \in PairingCodes, connection \in {"", "connecting", "close"} :
             PairingStep(qr, connection) =>
               ~connReady' /\ lastQR' = qr /\ lastQRAt' > 0]_vars

\* the first socket has reported "open": the session is ready and no pairing
\* code is stored
C21_Witness ==
  /\ connReady /\ lastQR = "" /\ lastQRAt = 0
  /\ sock = 1 /\ starting = 0

\* C22 (as claimed): a request to /qr.png made while no pairing code is stored
\* is answered 204 with no body, and one made while a code is stored and the
\* session is not ready is answered 200 with the image of that code, the
\* latest received; in neither situation is the status an error status.
C22_QrPngAnswers ==
  [][qrRes' # qrRes =>
       /\ lastQR = "" =>
            qrRes' = [status |-> 204, type |-> "", body |-> ""]
       /\ (lastQR # "" /\ ~connReady) =>
            qrRes' = [status |-> 200, type |-> "png", body |-> lastQR]
       /\ (lastQR = "" \/ ~connReady) => qrRes'.status < 400]_vars

====
